---- MODULE Spec2Model ----
(***************************************************************************)
(* RouteMeander (qiskit_metal/components/interconnects/meandered.py):      *)
(* make -> connect_meandered -> adjust_length, as a state machine whose    *)
(* steps are the stages of the two methods.                                *)
(*                                                                         *)
(* Lengths are exact integers.  One micrometre is `um` model units, where  *)
(* um is a common multiple of every fold count the model reaches, so that  *)
(* length_excess / (2 * meander_number) is exact; delta_length is drawn    *)
(* from multiples of every possible eligible-point count for the same      *)
(* reason.  mao.round is the identity on such values.                      *)
(*                                                                         *)
(* Points and vectors are pairs <<x, y>>.  numpy indices are kept as the   *)
(* code writes them (0-based, negative from the end) and translated by Row *)
(* and Axis.                                                               *)
(***************************************************************************)
EXTENDS Integers, Sequences, FiniteSets

\* largest floor(length_direct / spacing) the input grid produces; the
\* end-to-end scenario (ScenarioInputs) adds the single input with 5 folds
MaxFold == 3

\* default_options.meander.spacing, in micrometres
spacing_um == 200

----------------------------------------------------------------------------
\* arithmetic helpers

Abs(x) == IF x < 0 THEN -x ELSE x

Sgn(x) == IF x > 0 THEN 1 ELSE IF x < 0 THEN -1 ELSE 0

Max(a, b) == IF a >= b THEN a ELSE b

RECURSIVE Gcd(_, _)
Gcd(a, b) == IF b = 0 THEN a ELSE Gcd(b, a % b)

RECURSIVE LcmUpTo(_)
LcmUpTo(n) == IF n <= 1 THEN 1 ELSE (LcmUpTo(n - 1) * n) \div Gcd(LcmUpTo(n - 1), n)

\* model units per micrometre
um == LcmUpTo(MaxFold)

\* a length every eligible-point count 1 .. 2*MaxFold+1 divides
QShift == LcmUpTo(2 * MaxFold + 1)

\* mao.dot, mao.cross on 2-vectors
dot(a, b) == a[1] * b[1] + a[2] * b[2]

cross(a, b) == a[1] * b[2] - a[2] * b[1]

VAdd(a, b) == <<a[1] + b[1], a[2] + b[2]>>

VSub(a, b) == <<a[1] - b[1], a[2] - b[2]>>

VScale(k, a) == <<k * a[1], k * a[2]>>

\* numpy row index k (0-based, negative from the end) of an n-row array
Row(n, k) == IF k < 0 THEN n + k + 1 ELSE k + 1

RowOK(n, k) == Row(n, k) >= 1 /\ Row(n, k) <= n

\* numpy column index k in {0, 1, -1} of a 2-column array
Axis(k) == (k % 2) + 1

\* pts[r, c] = v
Put(q, r, c, v) ==
    IF RowOK(Len(q), r)
    THEN [q EXCEPT ![Row(Len(q), r)] = [@ EXCEPT ![Axis(c)] = v]]
    ELSE q

\* pts[r], pts[r, c]
At(q, r) == q[Row(Len(q), r)]

Get(q, r, c) == q[Row(Len(q), r)][Axis(c)]

----------------------------------------------------------------------------
\* inputs

Cardinals == {<<1, 0>>, <<-1, 0>>, <<0, 1>>, <<0, -1>>}

StartPosition == <<40 * um, -30 * um>>

\* length_direct in micrometres: one value below the spacing, then k*spacing and
\* k*spacing + 50 for every k in 1..MaxFold
Distances == {spacing_um \div 2}
             \cup {k * spacing_um + r : k \in 1..MaxFold, r \in {0, 50}}

\* sideways offset of the end anchor, micrometres
Offsets == {0, 50}

Asymmetries == {0, 200, -200}

\* length_meander - length_direct - 2*|asymmetry|, micrometres
Excesses == {0, 600}

Fillets == {0, 50}

DeltaLengths == {0, QShift, -QShift}

VARIABLES
    start_pt,                \* QRoutePoint: [position, direction]
    end_pt,
    p,                       \* parsed options: spacing, asymmetry, snap, prevent_short_edges, fillet
    _length_segment,         \* make: total_length - (head.length + tail.length)
    pc,                      \* position in make / connect_meandered
    outcome,                 \* "ok", or the exception that ended the run, or "nan"
    meander_number,
    first_meander_sideways,
    length_perp,
    idx_side1_meander,
    idx_side2_meander,
    odd,
    pts,                     \* connect_meandered's local array
    PTS_2,                   \* pts as it enters the prevent_short_edges block
    arc_pts,                 \* make: result of connect_meandered
    delta_length,            \* make: total_length - length, handed to adjust_length
    intermediate_pts         \* make: self.intermediate_pts

vars == <<start_pt, end_pt, p, _length_segment, pc, outcome, meander_number,
          first_meander_sideways, length_perp, idx_side1_meander,
          idx_side2_meander, odd, pts, PTS_2, arc_pts, delta_length,
          intermediate_pts>>

----------------------------------------------------------------------------
\* QRoute.get_unit_vectors: forward from start to end (snapped to the dominant
\* axis when snap is on), sideways = forward rotated by +90 degrees
\* ("x to the right => sideways up").  Without snap the model only places the
\* anchors on a common axis, where v / norm(v) is the sign vector.
get_unit_vectors(s, e, snap) ==
    LET v == VSub(e.position, s.position)
        forward == IF snap
                   THEN IF Abs(v[1]) >= Abs(v[2]) THEN <<Sgn(v[1]), 0>>
                                                  ELSE <<0, Sgn(v[2])>>
                   ELSE <<Sgn(v[1]), Sgn(v[2])>>
    IN  <<forward, <<-forward[2], forward[1]>>>>

forward == get_unit_vectors(start_pt, end_pt, p.snap)[1]

sideways == get_unit_vectors(start_pt, end_pt, p.snap)[2]

dist == VSub(end_pt.position, start_pt.position)

\* without snap norm(dist); the anchors then share an axis
length_direct ==
    IF p.snap THEN Abs(dot(dist, forward)) ELSE Abs(dist[1]) + Abs(dist[2])

length_sideways == IF p.snap THEN Abs(dot(dist, sideways)) ELSE 0

start_meander_direction == dot(start_pt.direction, sideways)

end_meander_direction == dot(end_pt.direction, sideways)

\* "pins are pointing opposite directions and diverging"
Diverging ==
    /\ dot(start_pt.direction, end_pt.direction) < 0
    /\ dot(forward, start_pt.direction) <= 0

\* the inputs drawn from the sets above: the end anchor is d along f and o
\* sideways of the start anchor
GridInputs ==
    \E f \in Cardinals, d \in Distances, o \in Offsets, snap \in BOOLEAN :
        /\ snap \/ o = 0
        /\ \E sd \in Cardinals, ed \in Cardinals :
             /\ start_pt = [position |-> StartPosition, direction |-> sd]
             /\ end_pt = [position |->
                             VAdd(StartPosition,
                                  VAdd(VScale(d * um, f),
                                       VScale(o * um, <<-f[2], f[1]>>))),
                          direction |-> ed]
        /\ \E a \in Asymmetries, fl \in Fillets, pse \in BOOLEAN, x \in Excesses :
             /\ p = [spacing |-> spacing_um * um, asymmetry |-> a * um,
                     snap |-> snap, prevent_short_edges |-> pse,
                     fillet |-> fl * um]
             /\ _length_segment = (d + 2 * Abs(a) + x) * um

\* the end-to-end scenario: start (0,0) facing (1,0), end (1000,0) facing
\* (-1,0), spacing 200, asymmetry 0, segment length 2000, default flags
ScenarioInputs ==
    /\ start_pt = [position |-> <<0, 0>>, direction |-> <<1, 0>>]
    /\ end_pt = [position |-> <<1000 * um, 0>>, direction |-> <<-1, 0>>]
    /\ p = [spacing |-> spacing_um * um, asymmetry |-> 0, snap |-> TRUE,
            prevent_short_edges |-> TRUE, fillet |-> 0]
    /\ _length_segment = 2000 * um

Init ==
    /\ GridInputs \/ ScenarioInputs
    /\ pc = "connect_meandered"
    /\ outcome = "ok"
    /\ meander_number = 0
    /\ first_meander_sideways = FALSE
    /\ length_perp = 0
    /\ idx_side1_meander = <<>>
    /\ idx_side2_meander = <<>>
    /\ odd = 0
    /\ pts = <<>>
    /\ PTS_2 = <<>>
    /\ arc_pts = <<>>
    /\ delta_length = 0
    /\ intermediate_pts = <<>>

----------------------------------------------------------------------------
\* connect_meandered, lines 156-168: the number of meanders that fit

FloorMeanders(ld, sp) == ld \div sp

HasMeandersFromZero(n) == ~(n < 0)

\* line 166: if meander_number < 1, there are "Zero meanders"
HasMeanders(n) == ~(n < 1)

\* "Zero meanders": return np.empty((0, 2)); make stores it and goes on
ZeroMeanders ==
    /\ pc = "connect_meandered"
    /\ ~HasMeanders(FloorMeanders(length_direct, p.spacing))
    /\ meander_number' = FloorMeanders(length_direct, p.spacing)
    /\ arc_pts' = <<>>
    /\ intermediate_pts' = <<>>
    /\ pc' = "adjust_length"
    /\ UNCHANGED <<start_pt, end_pt, p, _length_segment, outcome,
                   first_meander_sideways, length_perp, idx_side1_meander,
                   idx_side2_meander, odd, pts, PTS_2, delta_length>>

CountMeanders ==
    /\ pc = "connect_meandered"
    /\ HasMeanders(FloorMeanders(length_direct, p.spacing))
    /\ meander_number' = FloorMeanders(length_direct, p.spacing)
    /\ pc' = "parity"
    /\ UNCHANGED <<start_pt, end_pt, p, _length_segment, outcome,
                   first_meander_sideways, length_perp, idx_side1_meander,
                   idx_side2_meander, odd, pts, PTS_2, arc_pts, delta_length,
                   intermediate_pts>>

----------------------------------------------------------------------------
\* lines 170-179: adjust meander_number to what the anchors' directions allow

ParityCorrectedSwapped(n, sd, ed) ==
    IF sd * ed > 0 /\ n % 2 = 1 THEN n - 1
    ELSE IF sd * ed < 0 /\ n % 2 = 0 THEN n - 1
    ELSE n

ParityCorrected(n, sd, ed) ==
    IF sd * ed > 0 /\ n % 2 = 0 THEN n - 1
    ELSE IF sd * ed < 0 /\ n % 2 = 1 THEN n - 1
    ELSE n

ParityCorrection ==
    /\ pc = "parity"
    /\ meander_number' = ParityCorrected(meander_number, start_meander_direction,
                                         end_meander_direction)
    /\ pc' = "direction"
    /\ UNCHANGED <<start_pt, end_pt, p, _length_segment, outcome,
                   first_meander_sideways, length_perp, idx_side1_meander,
                   idx_side2_meander, odd, pts, PTS_2, arc_pts, delta_length,
                   intermediate_pts>>

FirstMeanderSidewaysNoParity(n, sd, ed) ==
    IF sd > 0 THEN TRUE
    ELSE IF sd < 0 THEN FALSE
    ELSE IF ed > 0 THEN TRUE
    ELSE IF ed < 0 THEN FALSE
    ELSE TRUE

\* lines 181-200: should the first meander go sideways or counter sideways?
FirstMeanderSideways(n, sd, ed) ==
    IF sd > 0 THEN TRUE
    ELSE IF sd < 0 THEN FALSE
    ELSE IF ed > 0 THEN n % 2 = 1
    ELSE IF ed < 0 THEN n % 2 = 0
    ELSE TRUE

FirstMeanderDirection ==
    /\ pc = "direction"
    /\ first_meander_sideways' =
           FirstMeanderSideways(meander_number, start_meander_direction,
                                end_meander_direction)
    /\ pc' = "synthesize"
    /\ UNCHANGED <<start_pt, end_pt, p, _length_segment, outcome, meander_number,
                   length_perp, idx_side1_meander, idx_side2_meander, odd, pts,
                   PTS_2, arc_pts, delta_length, intermediate_pts>>

----------------------------------------------------------------------------
\* lines 205-207: the perpendicular length of each meander

length_excess == _length_segment - length_direct - 2 * Abs(p.asymmetry)

\* meander_number is a numpy float: x / 0. is inf, -inf or nan, never an
\* exception, and max(0, .) of these is inf, 0 and 0
PerpIsInf(n, excess) == n = 0 /\ excess > 0

LengthPerpPerMeander(n, excess) ==
    IF n = 0 THEN 0 ELSE Max(0, excess \div n)

LengthPerp(n, excess) ==
    IF n = 0 THEN 0 ELSE Max(0, excess \div (n * 2))

get_index_stride2(num_root_pts) ==
    LET num_2pts == num_root_pts \div 2
        x == [k \in 1..num_2pts |-> (k - 1) * 2]
    IN  [z |-> [i \in 1..(num_2pts * 2) |->
                   IF i % 2 = 1 THEN x[(i + 1) \div 2] ELSE x[i \div 2] + 1],
         odd |-> num_root_pts % 2]

\* lines 427-444
get_index_for_side1_meander(num_root_pts) ==
    LET num_2pts == num_root_pts \div 2
        x == [k \in 1..num_2pts |-> (k - 1) * 4]
    IN  [z |-> [i \in 1..(num_2pts * 2) |->
                   IF i % 2 = 1 THEN x[(i + 1) \div 2] ELSE x[i \div 2] + 1],
         odd |-> num_root_pts % 2]

\* line 252: 2 + idx_side1_meander[:None if odd else -2]
IndexSide2(z, isodd) ==
    LET kept == IF isodd = 1 THEN Len(z) ELSE Max(0, Len(z) - 2)
    IN  [i \in 1..kept |-> 2 + z[i]]

\* lines 211-236: the root points and the points on either side of them
RootPts(n) ==
    [i \in 1..(n + 1) |->
        VAdd(VScale(p.spacing * (i - 1), forward), VScale(p.asymmetry, sideways))]

TopPts(n, perp) == [i \in 1..(n + 1) |-> VAdd(RootPts(n)[i], VScale(perp, sideways))]

BotPts(n, perp) == [i \in 1..(n + 1) |-> VSub(RootPts(n)[i], VScale(perp, sideways))]

\* lines 254-258: the slices of top_pts / bot_pts written to either side
Side1Source(src, isodd) ==
    IF isodd = 1 THEN SubSeq(src, 1, Len(src) - 1) ELSE src

Side2Source(src, isodd) ==
    IF isodd = 1 THEN SubSeq(src, 2, Len(src)) ELSE SubSeq(src, 2, Len(src) - 1)

BufferSizeKeepsAll(ntop, nbot) == ntop + nbot + 1

\* line 248: rows of pts
BufferSize(ntop, nbot) == ntop + nbot + 1 - 2

\* lines 248-260: pts = zeros; pts[-1] = root_pts[-1]; the two index
\* assignments in the code's order (the later one wins); pts += start position
Interleave(n, perp, fms, z1, z2, isodd) ==
    LET size == BufferSize(Len(TopPts(n, perp)), Len(BotPts(n, perp)))
        s1 == Side1Source(IF fms THEN TopPts(n, perp) ELSE BotPts(n, perp), isodd)
        s2 == Side2Source(IF fms THEN BotPts(n, perp) ELSE TopPts(n, perp), isodd)
        slot(j) ==
            IF \E i \in 1..Len(z2) : z2[i] = j
            THEN s2[CHOOSE i \in 1..Len(z2) : z2[i] = j]
            ELSE IF \E i \in 1..Len(z1) : z1[i] = j
            THEN s1[CHOOSE i \in 1..Len(z1) : z1[i] = j]
            ELSE IF j = size - 1 THEN RootPts(n)[n + 1]
            ELSE <<0, 0>>
    IN  [j \in 1..size |-> VAdd(slot(j - 1), start_pt.position)]

Synthesize ==
    /\ pc = "synthesize"
    /\ LET perp == LengthPerp(meander_number, length_excess)
           idx == get_index_for_side1_meander(meander_number + 1)
           z2 == IndexSide2(idx.z, idx.odd)
       IN  /\ length_perp' = perp
           /\ idx_side1_meander' = idx.z
           /\ idx_side2_meander' = z2
           /\ odd' = idx.odd
           /\ pts' = Interleave(meander_number, perp, first_meander_sideways,
                                idx.z, z2, idx.odd)
    /\ pc' = "align"
    /\ UNCHANGED <<start_pt, end_pt, p, _length_segment, outcome, meander_number,
                   first_meander_sideways, PTS_2, arc_pts, delta_length,
                   intermediate_pts>>

----------------------------------------------------------------------------
\* lines 264-274: align the right-most root point with the end anchor.
\* abs(forward[0]) is the column the code indexes with: 1 when forward runs
\* along x, 0 when it runs along y.

FwdColumn == Abs(forward[1])

AlignRaises(q) == p.snap /\ Diverging /\ ~RowOK(Len(q), -2)

AlignEndpointForward(q) ==
    IF ~p.snap THEN q
    ELSE IF Diverging
    THEN Put(Put(q, -1, FwdColumn, Get(q, -2, FwdColumn)),
             -1, FwdColumn - 1, end_pt.position[Axis(FwdColumn - 1)])
    ELSE Put(q, -1, FwdColumn - 1, end_pt.position[Axis(FwdColumn - 1)])

AlignEndpoint(q) ==
    IF ~p.snap THEN q
    ELSE IF Diverging
    THEN Put(Put(q, -1, FwdColumn, Get(q, -2, FwdColumn)),
             -1, FwdColumn - 1, end_pt.position[Axis(FwdColumn - 1)])
    ELSE Put(q, -1, FwdColumn, end_pt.position[Axis(FwdColumn)])

Align ==
    /\ pc = "align"
    /\ IF AlignRaises(pts)
       THEN /\ outcome' = "IndexError"
            /\ pc' = "raised"
            /\ UNCHANGED pts
       ELSE /\ pts' = AlignEndpoint(pts)
            /\ pc' = "overshoot"
            /\ UNCHANGED outcome
    /\ UNCHANGED <<start_pt, end_pt, p, _length_segment, meander_number,
                   first_meander_sideways, length_perp, idx_side1_meander,
                   idx_side2_meander, odd, PTS_2, arc_pts, delta_length,
                   intermediate_pts>>

\* lines 275-284: the asymmetry exceeds the perpendicular length
OvershootApplies ==
    /\ ~PerpIsInf(meander_number, length_excess)
    /\ Abs(p.asymmetry) > Abs(length_perp)
    /\ ~Diverging

OvershootRaises(q) ==
    /\ OvershootApplies
    /\ \/ start_meander_direction * p.asymmetry < 0 /\ ~RowOK(Len(q), 1)
       \/ end_meander_direction * p.asymmetry < 0 /\ ~RowOK(Len(q), -3)

OvershootCorrected(q) ==
    LET q1 == IF OvershootApplies /\ start_meander_direction * p.asymmetry < 0
              THEN Put(Put(q, 0, FwdColumn, start_pt.position[Axis(FwdColumn)]),
                       1, FwdColumn, start_pt.position[Axis(FwdColumn)])
              ELSE q
    IN  IF OvershootApplies /\ end_meander_direction * p.asymmetry < 0
        THEN Put(Put(q1, -2, FwdColumn, end_pt.position[Axis(FwdColumn)]),
                 -3, FwdColumn, end_pt.position[Axis(FwdColumn)])
        ELSE q1

Overshoot ==
    /\ pc = "overshoot"
    /\ IF OvershootRaises(pts)
       THEN /\ outcome' = "IndexError"
            /\ pc' = "raised"
            /\ UNCHANGED <<pts, PTS_2>>
       ELSE /\ pts' = OvershootCorrected(pts)
            /\ PTS_2' = OvershootCorrected(pts)
            /\ pc' = "prevent_short_edges"
            /\ UNCHANGED outcome
    /\ UNCHANGED <<start_pt, end_pt, p, _length_segment, meander_number,
                   first_meander_sideways, length_perp, idx_side1_meander,
                   idx_side2_meander, odd, arc_pts, delta_length,
                   intermediate_pts>>

----------------------------------------------------------------------------
\* lines 299-320: prevent_short_edges

x2fillet == 2 * p.fillet

\* "this extra point needs to be moved or not, depending on the tail tip direction"
skippoint == IF Abs(end_meander_direction) > 0 THEN 0 ELSE 1

ShortGapInclusive(q, anchor, r, c) ==
    /\ 0 < Abs(anchor.position[Axis(c)] - Get(q, r, c))
    /\ Abs(anchor.position[Axis(c)] - Get(q, r, c)) <= x2fillet

\* 0 < abs(round(anchor[c] - pts[r, c])) < x2fillet
ShortGap(q, anchor, r, c) ==
    /\ 0 < Abs(anchor.position[Axis(c)] - Get(q, r, c))
    /\ Abs(anchor.position[Axis(c)] - Get(q, r, c)) < x2fillet

\* the tail block for column c: rows -1-skippoint and -2-skippoint, column c-skippoint
TailBlock(q, c) ==
    IF ShortGap(q, end_pt, -1, c)
    THEN Put(Put(q, -1 - skippoint, c - skippoint,
                 end_pt.position[Axis(c - skippoint)]),
             -2 - skippoint, c - skippoint, end_pt.position[Axis(c - skippoint)])
    ELSE q

\* the start block for column c: rows 0 and 1
HeadBlock(q, c) ==
    IF ShortGap(q, start_pt, 0, c)
    THEN Put(Put(q, 0, c, start_pt.position[Axis(c)]),
             1, c, start_pt.position[Axis(c)])
    ELSE q

ShortEdgesFiltered(q) ==
    IF p.prevent_short_edges
    THEN HeadBlock(HeadBlock(TailBlock(TailBlock(q, 0), 1), 0), 1)
    ELSE q

\* a block that fires needs its two rows; every array that reaches the filter
\* has either one row or at least three, and with one row the first block that
\* fires raises before it changes anything a later test reads
ShortEdgesRaises(q) ==
    /\ p.prevent_short_edges
    /\ \/ /\ ShortGap(q, end_pt, -1, 0) \/ ShortGap(q, end_pt, -1, 1)
          /\ ~RowOK(Len(q), -2 - skippoint)
       \/ /\ ShortGap(q, start_pt, 0, 0) \/ ShortGap(q, start_pt, 0, 1)
          /\ ~RowOK(Len(q), 1)

\* lines 299-324 and make, lines 94-96: filter, return pts, store it
PreventShortEdges ==
    /\ pc = "prevent_short_edges"
    /\ IF ShortEdgesRaises(pts)
       THEN /\ outcome' = "IndexError"
            /\ pc' = "raised"
            /\ UNCHANGED <<pts, arc_pts, intermediate_pts>>
       ELSE /\ pts' = ShortEdgesFiltered(pts)
            /\ arc_pts' = ShortEdgesFiltered(pts)
            /\ intermediate_pts' = ShortEdgesFiltered(pts)
            /\ pc' = "adjust_length"
            /\ UNCHANGED outcome
    /\ UNCHANGED <<start_pt, end_pt, p, _length_segment, meander_number,
                   first_meander_sideways, length_perp, idx_side1_meander,
                   idx_side2_meander, odd, PTS_2, delta_length>>

----------------------------------------------------------------------------
\* adjust_length, lines 347-425

term_point(q) == Len(q) % 2

\* lines 353-360: recompute the meander sides from the first / last point triplets
AdjFirstSideways(q) ==
    cross(VSub(At(q, 1), At(q, 0)), VSub(At(q, 2), At(q, 1))) < 0

AdjLastSideways(q) ==
    LET t == term_point(q)
    IN  ~(cross(VSub(At(q, -2 - t), At(q, -1 - t)),
                VSub(At(q, -3 - t), At(q, -2 - t))) < 0)

\* lines 364-371: +1/-1 in a repeating 4-point pattern, index j is 0-based
SignPattern(q) ==
    [j \in 1..Len(q) |->
        IF AdjFirstSideways(q)
        THEN IF (j - 1) % 4 \in {2, 3} THEN -1 ELSE 1
        ELSE IF (j - 1) % 4 \in {0, 1} THEN -1 ELSE 1]

fillet_shift == VScale(p.fillet, sideways)

\* line 379
issideways(pt, a, b) == cross(VSub(pt, a), VSub(b, a)) < 0

\* lines 381-390
FirstFairGame(q) ==
    \/ /\ AdjFirstSideways(q)
       /\ ~issideways(VAdd(start_pt.position, fillet_shift), At(q, 0), At(q, 1))
    \/ /\ ~AdjFirstSideways(q)
       /\ issideways(VSub(start_pt.position, fillet_shift), At(q, 0), At(q, 1))

\* lines 392-401
LastFairGame(q) ==
    LET t == term_point(q)
    IN  \/ /\ AdjLastSideways(q)
           /\ ~issideways(VAdd(end_pt.position, fillet_shift),
                          At(q, -2 - t), At(q, -1 - t))
        \/ /\ ~AdjLastSideways(q)
           /\ issideways(VSub(end_pt.position, fillet_shift),
                         At(q, -2 - t), At(q, -1 - t))

\* line 408: all([start_pt.direction, end_pt.direction]), the test that
\* neither direction is None; both anchors carry a direction once
\* connect_meandered has run (line 134 assigns a missing one).  The anchor
\* type is defined outside this file; the test is taken with the meaning its
\* comment gives it.
DirectionsSet == TRUE

\* line 412: the termination point keeps its predecessor's entry
InheritsShift == DirectionsSet /\ Diverging

\* lines 364-412: the vector of shifts, 0 = receives no shift
AdjustmentVector(q) ==
    LET n == Len(q)
        t == term_point(q)
        v0 == SignPattern(q)
        v1 == IF FirstFairGame(q) THEN v0
              ELSE [j \in 1..n |-> IF j <= 2 THEN 0 ELSE v0[j]]
        \* adjustment_vector[-2-t:-t] = [0, 0]
        v2 == IF LastFairGame(q) THEN v1
              ELSE [j \in 1..n |-> IF j >= n - 1 - t /\ j <= n - t THEN 0 ELSE v1[j]]
        v3 == IF t = 1 THEN [v2 EXCEPT ![n] = 0] ELSE v2
    IN  IF t = 1 /\ InheritsShift THEN [v3 EXCEPT ![n] = v3[n - 1]] ELSE v3

CountNonzero(v) == Cardinality({j \in 1..Len(v) : v[j] # 0})

\* line 418: delta_length / np.count_nonzero(adjustment_vector)
ShiftPerPoint(dl, v) == dl \div CountNonzero(v)

\* line 422
Adjusted(q, dl) ==
    LET v == AdjustmentVector(q)
    IN  [j \in 1..Len(q) |-> VAdd(q[j], VScale(ShiftPerPoint(dl, v) * v[j], sideways))]

\* pts[0], pts[1], pts[2] and pts[-3-term_point] are read unconditionally
AdjustIndexError(q) == ~RowOK(Len(q), 2) \/ ~RowOK(Len(q), -3 - term_point(q))

\* with an even count the slice [-2:-0] is empty and cannot take [0, 0]
AdjustValueError(q) == term_point(q) = 0 /\ ~LastFairGame(q)

\* make, line 98.  A zero count divides by zero: ZeroDivisionError when
\* delta_length is a Python float, and every coordinate nan when it is a numpy
\* float; which one it is depends on QRoute.length.
AdjustLength ==
    /\ pc = "adjust_length"
    /\ \E dl \in DeltaLengths :
         /\ delta_length' = dl
         /\ IF AdjustIndexError(arc_pts)
            THEN /\ outcome' = "IndexError"
                 /\ pc' = "raised"
                 /\ UNCHANGED intermediate_pts
            ELSE IF AdjustValueError(arc_pts)
            THEN /\ outcome' = "ValueError"
                 /\ pc' = "raised"
                 /\ UNCHANGED intermediate_pts
            ELSE IF CountNonzero(AdjustmentVector(arc_pts)) = 0
            THEN /\ \E o \in {"ZeroDivisionError", "nan"} : outcome' = o
                 /\ pc' = IF outcome' = "nan" THEN "make_elements" ELSE "raised"
                 /\ UNCHANGED intermediate_pts
            ELSE /\ intermediate_pts' = Adjusted(arc_pts, dl)
                 /\ pc' = "make_elements"
                 /\ UNCHANGED outcome
    /\ UNCHANGED <<start_pt, end_pt, p, _length_segment, meander_number,
                   first_meander_sideways, length_perp, idx_side1_meander,
                   idx_side2_meander, odd, pts, PTS_2, arc_pts>>

Next ==
    \/ ZeroMeanders
    \/ CountMeanders
    \/ ParityCorrection
    \/ FirstMeanderDirection
    \/ Synthesize
    \/ Align
    \/ Overshoot
    \/ PreventShortEdges
    \/ AdjustLength

Spec == Init /\ [][Next]_vars

----------------------------------------------------------------------------
\* the polyline start anchor -> points -> end anchor, and its exact length

Route(q) == <<start_pt.position>> \o q \o <<end_pt.position>>

RECURSIVE IsqrtIn(_, _, _)
IsqrtIn(n, lo, hi) ==
    IF lo >= hi THEN lo
    ELSE LET mid == (lo + hi + 1) \div 2
         IN  IF mid * mid <= n THEN IsqrtIn(n, mid, hi) ELSE IsqrtIn(n, lo, mid - 1)

\* the length of segment a -> b, rounded down
SegLength(a, b) ==
    IF a[1] = b[1] THEN Abs(a[2] - b[2])
    ELSE IF a[2] = b[2] THEN Abs(a[1] - b[1])
    ELSE IsqrtIn((a[1] - b[1]) * (a[1] - b[1]) + (a[2] - b[2]) * (a[2] - b[2]),
                 0, Abs(a[1] - b[1]) + Abs(a[2] - b[2]))

SegExact(a, b) ==
    SegLength(a, b) * SegLength(a, b)
        = (a[1] - b[1]) * (a[1] - b[1]) + (a[2] - b[2]) * (a[2] - b[2])

RECURSIVE SumLengths(_, _)
SumLengths(r, i) ==
    IF i >= Len(r) THEN 0 ELSE SegLength(r[i], r[i + 1]) + SumLengths(r, i + 1)

\* a sum of square roots of integers is an integer only if every one of them is
HasLength(r, l) ==
    /\ \A i \in 1..(Len(r) - 1) : SegExact(r[i], r[i + 1])
    /\ SumLengths(r, 1) = l

Rectilinear(r) ==
    \A i \in 1..(Len(r) - 1) : r[i][1] = r[i + 1][1] \/ r[i][2] = r[i + 1][2]

\* every segment of r keeps its direction in r2 (none reverses, none shrinks to
\* nothing, none grows out of nothing)
NoReversal(r, r2) ==
    \A i \in 1..(Len(r) - 1) : \A c \in 1..2 :
        Sgn(r[i + 1][c] - r[i][c]) = Sgn(r2[i + 1][c] - r2[i][c])

ForwardAxis == IF forward[1] # 0 THEN 1 ELSE 2

SidewaysAxis == 3 - ForwardAxis

\* adjust_length returned normally
Adjusted_ok == pc = "make_elements" /\ outcome = "ok"

\* adjust_length got as far as the division
ReachedDivision == pc \in {"make_elements", "raised"} /\ ~AdjustIndexError(arc_pts)
                   /\ ~AdjustValueError(arc_pts)

----------------------------------------------------------------------------
\* C1: adjust_length consumes the slack exactly: for a snapped, rectilinear
\* route with at least one eligible point and a delta_length that reverses no
\* segment, the route through the adjusted points is longer than the route
\* through the given points by exactly delta_length.  Stated for the plain
\* case asymmetry = 0.
C1_SlackConsumedExactly ==
    (/\ Adjusted_ok
     /\ p.snap
     /\ p.asymmetry = 0
     /\ Rectilinear(Route(arc_pts))
     /\ NoReversal(Route(arc_pts), Route(intermediate_pts)))
    => HasLength(Route(intermediate_pts),
                 SumLengths(Route(arc_pts), 1) + delta_length)

\* C6: with no eligible point adjust_length does not divide and returns its
\* input unchanged.
C6_ZeroEligibleGuarded ==
    (ReachedDivision /\ CountNonzero(AdjustmentVector(arc_pts)) = 0)
    => (outcome = "ok" /\ pc = "make_elements" /\ intermediate_pts = arc_pts)

----------------------------------------------------------------------------
\* connect_meandered has returned to make (and adjust_length has not run yet)
Returned == pc = "adjust_length"

\* the Point Synthesizer ran: connect_meandered returned a non-empty array
Synthesized == Returned /\ Len(arc_pts) > 0

\* the two float divisions of the code are exact in model units on every run:
\* the half-excess per fold (line 205) and the shift per eligible point (line 418)
ExactArithmetic ==
    /\ (pc \notin {"connect_meandered", "parity", "direction", "synthesize"}
        /\ meander_number >= 1)
       => Max(0, length_excess) % (2 * meander_number) = 0
    /\ Adjusted_ok
       => delta_length % CountNonzero(AdjustmentVector(arc_pts)) = 0

\* C2: length conservation of the Point Synthesizer: with snap on, asymmetry 0,
\* length_meander >= length_direct, no sideways offset between the anchors, the
\* anchors not diverging and the short-edge filter changing nothing, the route
\* start -> returned points -> end is exactly length_meander long, which is
\* length_direct + 2 * meander_number * length_perp.
C2_LengthConserved ==
    (/\ Synthesized
     /\ p.snap
     /\ p.asymmetry = 0
     /\ _length_segment >= length_direct
     /\ length_sideways = 0
     /\ ~Diverging
     /\ arc_pts = PTS_2)
    => /\ HasLength(Route(arc_pts), _length_segment)
       /\ _length_segment = length_direct + 2 * meander_number * length_perp

\* the run of C2 on the end-to-end scenario: direct distance 1000, 5 folds of
\* amplitude 100, 11 points, route length 1000 + 2 * 5 * 100 = 2000
C2_Witness ==
    /\ Synthesized /\ p.snap /\ p.asymmetry = 0 /\ length_sideways = 0
    /\ ~Diverging /\ arc_pts = PTS_2
    /\ start_pt.position = <<0, 0>>
    /\ length_direct = 1000 * um
    /\ meander_number = 5
    /\ length_perp = 100 * um
    /\ Len(arc_pts) = 11
    /\ _length_segment = length_direct + 2 * meander_number * length_perp
    /\ HasLength(Route(arc_pts), 2000 * um)

\* a run of C2 with a parity correction and a direct distance that is not a
\* multiple of the spacing
C2_CorrectedRun ==
    /\ Synthesized /\ p.snap /\ p.asymmetry = 0 /\ length_sideways = 0
    /\ ~Diverging /\ arc_pts = PTS_2
    /\ length_perp > 0
    /\ meander_number = 1
    /\ FloorMeanders(length_direct, p.spacing) = 2
    /\ length_direct % p.spacing # 0
    /\ HasLength(Route(arc_pts), _length_segment)

\* C3 as stated: 2 * meander_number - 1 points when meander_number >= 1, else none.
C3_SizeTwoNMinusOne ==
    Returned =>
        Len(arc_pts) = IF meander_number >= 1 THEN 2 * meander_number - 1 ELSE 0

\* C3, amended: connect_meandered returns 2 * meander_number + 1 points (a pair
\* per meander and the trailing root point) whenever floor(length_direct /
\* spacing) >= 1, and no point otherwise.
C3_OutputSize ==
    Returned =>
        Len(arc_pts) = IF FloorMeanders(length_direct, p.spacing) >= 1
                       THEN 2 * meander_number + 1
                       ELSE 0

C3_Witness == Returned /\ meander_number = 3 /\ Len(arc_pts) = 7

\* the parity correction has run
ParityDone ==
    /\ pc \notin {"connect_meandered", "parity"}
    /\ FloorMeanders(length_direct, p.spacing) >= 1

\* C4: after the parity correction meander_number is odd when the anchors face
\* the same lateral side, even when they face opposite sides, and the floor
\* itself when either has no sideways component; it is never more than one
\* below the floor.
C4_Parity ==
    ParityDone =>
        LET s == start_meander_direction * end_meander_direction
            fl == FloorMeanders(length_direct, p.spacing)
        IN  /\ s > 0 => meander_number % 2 = 1
            /\ s < 0 => meander_number % 2 = 0
            /\ s = 0 => meander_number = fl
            /\ meander_number \in {fl, fl - 1}

C4_Witness ==
    /\ pc = "direction"
    /\ start_meander_direction * end_meander_direction > 0
    /\ FloorMeanders(length_direct, p.spacing) = 2
    /\ meander_number = 1

\* the gap on axis c between row r of q and an anchor, and whether the filter
\* takes it for a short edge
GapTo(q, anchor, r, c) == Abs(anchor.position[c] - At(q, r)[c])

IsShort(g) == 0 < g /\ g < 2 * p.fillet

\* the postcondition of C5 for one anchor (row r is its terminal point) and axis
Collapsed(anchor, r, c) ==
    IF IsShort(GapTo(PTS_2, anchor, r, c))
    THEN GapTo(arc_pts, anchor, r, c) = 0
    ELSE At(arc_pts, r)[c] = At(PTS_2, r)[c]

Filtered == Synthesized /\ p.prevent_short_edges

\* C5 as stated: for either anchor and either axis, a nonzero gap below
\* 2 * fillet is 0 after the filter, and any other gap leaves the terminal
\* point's coordinate as it was.
C5_EveryShortGapCollapsed ==
    Filtered => \A c \in 1..2 : Collapsed(end_pt, -1, c) /\ Collapsed(start_pt, 0, c)

\* C5, amended: the postcondition holds for the end anchor when its direction
\* has a sideways component; when it has none the last point is left as it was
\* and (in an array of five points or more) the two points before it take the
\* end anchor's coordinate on the other axis; it holds for the start anchor
\* unless the array has three points and the end direction has no sideways
\* component (the tail block then writes the first point).
C5_ShortEdgeFilter ==
    Filtered =>
        /\ skippoint = 0 => \A c \in 1..2 : Collapsed(end_pt, -1, c)
        /\ skippoint = 1 =>
             /\ At(arc_pts, -1) = At(PTS_2, -1)
             /\ Len(arc_pts) >= 5 =>
                  \A c \in 1..2 :
                      IsShort(GapTo(PTS_2, end_pt, -1, c)) =>
                          /\ At(arc_pts, -2)[3 - c] = end_pt.position[3 - c]
                          /\ At(arc_pts, -3)[3 - c] = end_pt.position[3 - c]
        /\ (skippoint = 0 \/ Len(arc_pts) # 3) =>
               \A c \in 1..2 : Collapsed(start_pt, 0, c)

\* short gaps collapsed at both anchors, and a gap of exactly 2 * fillet kept
C5_Witness ==
    /\ Filtered /\ skippoint = 0
    /\ \E c \in 1..2 : IsShort(GapTo(PTS_2, end_pt, -1, c))
                       /\ GapTo(arc_pts, end_pt, -1, c) = 0
    /\ \E c \in 1..2 : GapTo(PTS_2, start_pt, 0, c) = 2 * p.fillet
                       /\ p.fillet > 0
                       /\ At(arc_pts, 0)[c] = At(PTS_2, 0)[c]

Aligned == pc = "overshoot" /\ p.snap

\* C8 as stated: (a) diverging anchors: the last point has its predecessor's
\* sideways-axis coordinate and the end anchor's forward-axis coordinate;
\* (b) otherwise the last point has the end anchor's forward-axis coordinate.
C8_ForwardCoordinateAligned ==
    Aligned =>
        IF Diverging
        THEN /\ At(pts, -1)[SidewaysAxis] = At(pts, -2)[SidewaysAxis]
             /\ At(pts, -1)[ForwardAxis] = end_pt.position[ForwardAxis]
        ELSE At(pts, -1)[ForwardAxis] = end_pt.position[ForwardAxis]

\* C8, amended: (a) as stated; (b) otherwise the last point has the end
\* anchor's sideways-axis coordinate (it lies on the forward line through the
\* end anchor) and keeps the forward-axis coordinate of the last root point,
\* meander_number * spacing from the start anchor.
C8_EndpointAlignment ==
    Aligned =>
        IF Diverging
        THEN /\ At(pts, -1)[SidewaysAxis] = At(pts, -2)[SidewaysAxis]
             /\ At(pts, -1)[ForwardAxis] = end_pt.position[ForwardAxis]
        ELSE /\ At(pts, -1)[SidewaysAxis] = end_pt.position[SidewaysAxis]
             /\ At(pts, -1)[ForwardAxis] =
                    VAdd(start_pt.position,
                         VScale(meander_number * p.spacing, forward))[ForwardAxis]

\* forward along y, not diverging, the last root point moved sideways onto the
\* end anchor's line and left short of it along forward
C8_Witness ==
    /\ Aligned /\ ~Diverging /\ ForwardAxis = 2
    /\ length_sideways # p.asymmetry
    /\ At(pts, -1)[SidewaysAxis] = end_pt.position[SidewaysAxis]
    /\ At(pts, -1)[ForwardAxis] # end_pt.position[ForwardAxis]

\* the signed distance of a point from the asymmetry-shifted centre line
SideOf(pt) == dot(VSub(pt, start_pt.position), sideways) - p.asymmetry

\* Synthesize has run: pts is the raw interleaved sequence
RawSequence == pc = "align"

\* C9: in the raw sequence, with meander_number >= 1 and length_perp > 0, the
\* first two points lie on the side the start direction's sideways component
\* points to, and the last paired point on the side the end direction's
\* sideways component points to.
C9_LateralSides ==
    (RawSequence /\ meander_number >= 1 /\ length_perp > 0) =>
        /\ start_meander_direction # 0 =>
               /\ Sgn(SideOf(At(pts, 0))) = Sgn(start_meander_direction)
               /\ Sgn(SideOf(At(pts, 1))) = Sgn(start_meander_direction)
        /\ end_meander_direction # 0 =>
               Sgn(SideOf(At(pts, -2))) = Sgn(end_meander_direction)

\* the fallback to the end anchor, with an even count
C9_Witness ==
    /\ RawSequence /\ meander_number = 2 /\ length_perp > 0
    /\ start_meander_direction = 0 /\ end_meander_direction < 0
    /\ first_meander_sideways
    /\ SideOf(At(pts, -2)) < 0

Values(z) == {z[i] : i \in 1..Len(z)}

\* C10: for n root points the side-1 indices are the slots j of 0..2n-3 with
\* j mod 4 in {0, 1}, the side-2 indices those with j mod 4 in {2, 3}; they are
\* disjoint, each index occurs once, together they cover every slot but the
\* last, which holds the last root point; each side has as many slots as points
\* written to it; the flag is n mod 2.
C10_IndexPartition ==
    Len(pts) > 0 =>
        LET n == meander_number + 1
            slots == 0..(2 * n - 3)
        IN  /\ Values(idx_side1_meander) = {j \in slots : j % 4 \in {0, 1}}
            /\ Values(idx_side2_meander) = {j \in slots : j % 4 \in {2, 3}}
            /\ Values(idx_side1_meander) \cap Values(idx_side2_meander) = {}
            /\ Values(idx_side1_meander) \cup Values(idx_side2_meander) = slots
            /\ Cardinality(Values(idx_side1_meander)) = Len(idx_side1_meander)
            /\ Cardinality(Values(idx_side2_meander)) = Len(idx_side2_meander)
            /\ Len(idx_side1_meander)
                   = Len(Side1Source(TopPts(meander_number, length_perp), odd))
            /\ Len(idx_side2_meander)
                   = Len(Side2Source(BotPts(meander_number, length_perp), odd))
            /\ odd = n % 2
            /\ RawSequence =>
                   /\ Len(pts) = 2 * n - 1
                   /\ At(pts, -1) = VAdd(RootPts(meander_number)[n], start_pt.position)

C10_Witness ==
    /\ RawSequence /\ meander_number = 3
    /\ idx_side1_meander = <<0, 1, 4, 5>>
    /\ idx_side2_meander = <<2, 3>>
    /\ odd = 0

----------------------------------------------------------------------------
\* connect_meandered is past the "Zero meanders" return (line 168) and the
\* parity correction of lines 173-179 has run
PastParity ==
    /\ FloorMeanders(length_direct, p.spacing) >= 1
    /\ pc \notin {"connect_meandered", "parity"}

\* the amplitude has been computed and the buffer filled (lines 205-260)
AmplitudeComputed ==
    PastParity /\ pc \notin {"direction", "synthesize"}

\* C11: whenever connect_meandered proceeds past the "Zero meanders" check, the
\* parity-corrected meander_number is still >= 1, so line 207 never divides by
\* zero, and the synthesized array has at least 3 rows, so that pts[1],
\* pts[-2] and pts[-3] exist for the alignment, the overshoot correction and
\* the short-edge filter.
C11_FoldCountSurvivesParity ==
    /\ PastParity => meander_number >= 1
    /\ AmplitudeComputed => Len(pts) >= 3

\* C12: make calls adjust_length only on an array of at least 3 rows; when
\* connect_meandered returned the empty array ("Zero meanders"), adjust_length
\* completes without a fault and the intermediate points stay empty.
C12_AdjustLengthGetsThreeRows ==
    /\ Returned => Len(arc_pts) >= 3
    /\ (pc \in {"make_elements", "raised"}
        /\ FloorMeanders(length_direct, p.spacing) < 1)
       => /\ outcome = "ok"
          /\ pc = "make_elements"
          /\ intermediate_pts = <<>>

====
